---- MODULE Spec2Model ----
(***************************************************************************)
(* Model of cpanel_mcp/server.py: the CpanelAPI bridge (singleton,         *)
(* configuration from the environment, make_call, split_email) and the     *)
(* nine CpanelMCP tool operations.                                         *)
(*                                                                         *)
(* Python strings are sequences of one-character strings, so formatting,   *)
(* splitting, lower-casing and integer parsing are computed, not assumed.  *)
(* An optional value is a sequence of length 0 (absent / unset) or 1.      *)
(***************************************************************************)
EXTENDS Integers, Sequences, FiniteSets, TLC

VARIABLES
  env,        \* os.environ restricted to the five names the bridge reads
  singleton,  \* CpanelAPI._singleton: 0 for None, else the index of an instance
  objs,       \* the CpanelAPI instances allocated so far, by index
  clients,    \* number of httpx.Client objects created so far
  api,        \* CpanelMCP._api: the instance the latest construction returned
  last,       \* the latest operation, its arguments and its outcome
  calls,      \* the make_call invocations of the latest operation
  gets,       \* the GET requests sent by the latest operation
  exchange,   \* outcome of the HTTP exchange of the latest operation, if any
  decoded,    \* whether response.json() was invoked by the latest operation
  threads     \* per thread: its position in CpanelAPI() / make_call and its locals

bridge == <<singleton, objs, clients, api>>

wire == <<calls, gets, exchange, decoded>>

vars ==
  <<env, singleton, objs, clients, api, last, calls, gets, exchange, decoded, threads>>

(***************************************************************************)
(* Bounds                                                                  *)
(***************************************************************************)
MaxInits == 3

MaxObjs == 2

MaxEmailLen == 4

NumThreads == 2

(***************************************************************************)
(* String literals of the source                                           *)
(***************************************************************************)
S_https == <<"h", "t", "t", "p", "s">>

S_http == <<"h", "t", "t", "p">>

S_execute == <<"/", "e", "x", "e", "c", "u", "t", "e", "/">>

S_cpanel == <<"c", "p", "a", "n", "e", "l", " ">>

S_appjson == <<"a", "p", "p", "l", "i", "c", "a", "t", "i", "o", "n", "/", "j", "s", "o", "n">>

S_HTTP == <<"H", "T", "T", "P", " ">>

S_RequestFailed == <<"R", "e", "q", "u", "e", "s", "t", " ", "f", "a", "i", "l", "e", "d", ":", " ">>

S_InvalidJSON == <<"I", "n", "v", "a", "l", "i", "d", " ", "J", "S", "O", "N", " ", "r", "e", "s", "p", "o", "n", "s", "e", " ", "f", "r", "o", "m", " ", "c", "P", "a", "n", "e", "l", " ", "A", "P", "I", ".">>

S_Unknown == <<"U", "n", "k", "n", "o", "w", "n", " ", "e", "r", "r", "o", "r", " ", "o", "c", "c", "u", "r", "r", "e", "d", ":", " ">>

S_Email == <<"E", "m", "a", "i", "l">>

S_fwd == <<"f", "w", "d">>

TruthyStrings == { <<"t", "r", "u", "e">>, <<"1">>, <<"y", "e", "s">>, <<"o", "n">> }

DefaultPort == 2083

DefaultSsl == TRUE

(***************************************************************************)
(* Python built-ins used by the source                                     *)
(***************************************************************************)
UpperLetters == <<"A", "B", "C", "D", "E", "F", "G", "H", "I", "J", "K", "L", "M", "N", "O", "P", "Q", "R", "S", "T", "U", "V", "W", "X", "Y", "Z">>

LowerLetters == <<"a", "b", "c", "d", "e", "f", "g", "h", "i", "j", "k", "l", "m", "n", "o", "p", "q", "r", "s", "t", "u", "v", "w", "x", "y", "z">>

Digits == <<"0", "1", "2", "3", "4", "5", "6", "7", "8", "9">>

\* str.lower() on one character
LowerChar(c) ==
  IF \E i \in 1..26 : UpperLetters[i] = c
  THEN LowerLetters[CHOOSE i \in 1..26 : UpperLetters[i] = c]
  ELSE c

\* str.lower()
Lower(s) == [i \in 1..Len(s) |-> LowerChar(s[i])]

IsDigit(c) == \E i \in 1..10 : Digits[i] = c

DigitVal(c) == (CHOOSE i \in 1..10 : Digits[i] = c) - 1

\* str.strip() restricted to the space character
RECURSIVE LStrip(_)
LStrip(s) == IF s # <<>> /\ Head(s) = " " THEN LStrip(Tail(s)) ELSE s

RECURSIVE RStrip(_)
RStrip(s) ==
  IF s # <<>> /\ s[Len(s)] = " " THEN RStrip(SubSeq(s, 1, Len(s) - 1)) ELSE s

Strip(s) == RStrip(LStrip(s))

\* value of a digit string in which single underscores may separate digits
RECURSIVE DigitsValue(_, _)
DigitsValue(s, acc) ==
  IF s = <<>> THEN acc
  ELSE IF Head(s) = "_" THEN DigitsValue(Tail(s), acc)
  ELSE DigitsValue(Tail(s), 10 * acc + DigitVal(Head(s)))

\* the digit part int() accepts: digits, single underscores only between digits
WellFormedDigits(s) ==
  /\ s # <<>>
  /\ IsDigit(s[1])
  /\ IsDigit(s[Len(s)])
  /\ \A i \in 1..Len(s) : IsDigit(s[i]) \/ s[i] = "_"
  /\ \A i \in 1..(Len(s) - 1) : ~(s[i] = "_" /\ s[i + 1] = "_")

\* int(str): <<n>> when the string parses, <<>> when int() raises ValueError
ParseInt(s) ==
  LET t == Strip(s)
      signed == t # <<>> /\ Head(t) \in {"+", "-"}
      body == IF signed THEN Tail(t) ELSE t
  IN  IF ~WellFormedDigits(body) THEN <<>>
      ELSE IF signed /\ Head(t) = "-" THEN << 0 - DigitsValue(body, 0) >>
      ELSE << DigitsValue(body, 0) >>

RECURSIVE NatToStr(_)
NatToStr(n) ==
  IF n < 10 THEN << Digits[n + 1] >>
  ELSE NatToStr(n \div 10) \o << Digits[(n % 10) + 1] >>

\* f"{n}" for an int
IntToStr(n) == IF n < 0 THEN <<"-">> \o NatToStr(0 - n) ELSE NatToStr(n)

\* str.split(sep) for a one-character separator: the list of pieces
RECURSIVE SplitAcc(_, _, _)
SplitAcc(s, sep, cur) ==
  IF s = <<>> THEN << cur >>
  ELSE IF Head(s) = sep THEN << cur >> \o SplitAcc(Tail(s), sep, <<>>)
  ELSE SplitAcc(Tail(s), sep, Append(cur, Head(s)))

Split(s, sep) == SplitAcc(s, sep, <<>>)

(***************************************************************************)
(* Environment (os.environ) and CpanelConfig                               *)
(***************************************************************************)
EnvNames == {"USERNAME", "HOSTNAME", "CPANEL_API_TOKEN", "PORT", "SSL"}

RequiredNames == {"USERNAME", "HOSTNAME", "CPANEL_API_TOKEN"}

\* the environment the test suite installs before every test
DefaultEnv ==
  [k \in EnvNames |->
     CASE k = "USERNAME" -> << <<"c", "p", "u", "s", "e", "r">> >>
       [] k = "HOSTNAME" -> << <<"c", "p", "a", "n", "e", "l", ".", "e", "x", "a", "m", "p", "l", "e", ".", "c", "o", "m">> >>
       [] k = "CPANEL_API_TOKEN" -> << <<"t", "o", "k", "1", "2", "3">> >>
       [] OTHER -> <<>>]

\* outcome of a call: a returned value or a raised exception
Returned(v) == [kind |-> "return", exc |-> "", names |-> {}, val |-> v]

Raised(e, ns) == [kind |-> "raise", exc |-> e, names |-> ns, val |-> <<>>]

\* CpanelConfig(**configs): pydantic validation of the declared fields
CpanelConfig(configs) ==
  LET errors == {f \in {"hostname", "username", "api_token"} : configs[f] = <<>>}
  IN  IF errors # {} THEN Raised("ValidationError", errors)
      ELSE Returned([hostname |-> configs.hostname[1],
                     username |-> configs.username[1],
                     api_token |-> configs.api_token[1],
                     port |-> IF configs.port = <<>> THEN DefaultPort
                              ELSE configs.port[1],
                     ssl |-> IF configs.ssl = <<>> THEN DefaultSsl
                             ELSE configs.ssl[1]])

\* _build_config without contextlib.suppress around int(port_)
BuildConfig_strictPort(e) ==
  IF e["USERNAME"] = <<>> THEN Raised("KeyError", {"USERNAME"})
  ELSE IF e["HOSTNAME"] = <<>> THEN Raised("KeyError", {"HOSTNAME"})
  ELSE IF e["CPANEL_API_TOKEN"] = <<>> THEN Raised("KeyError", {"CPANEL_API_TOKEN"})
  ELSE IF e["PORT"] # <<>> /\ ParseInt(e["PORT"][1]) = <<>>
  THEN Raised("ValueError", {"PORT"})
  ELSE Returned([hostname |-> e["HOSTNAME"][1],
                 username |-> e["USERNAME"][1],
                 api_token |-> e["CPANEL_API_TOKEN"][1],
                 port |-> IF e["PORT"] = <<>> THEN DefaultPort
                          ELSE ParseInt(e["PORT"][1])[1],
                 ssl |-> IF e["SSL"] = <<>> THEN DefaultSsl
                         ELSE Lower(e["SSL"][1]) \in TruthyStrings])

\* CpanelAPI._build_config
BuildConfig(e) ==
  IF e["USERNAME"] = <<>> THEN Raised("KeyError", {"USERNAME"})
  ELSE IF e["HOSTNAME"] = <<>> THEN Raised("KeyError", {"HOSTNAME"})
  ELSE IF e["CPANEL_API_TOKEN"] = <<>> THEN Raised("KeyError", {"CPANEL_API_TOKEN"})
  ELSE
    LET port_ == e["PORT"]
        use_ssl == e["SSL"]
        configs == [hostname |-> e["HOSTNAME"],
                    username |-> e["USERNAME"],
                    api_token |-> e["CPANEL_API_TOKEN"],
                    port |-> IF port_ # <<>> THEN ParseInt(port_[1]) ELSE <<>>,
                    ssl |-> IF use_ssl # <<>>
                            THEN << Lower(use_ssl[1]) \in TruthyStrings >>
                            ELSE <<>>]
        c == CpanelConfig(configs)
    IN  IF c.kind = "raise" THEN Raised("RuntimeError", c.names) ELSE c

(***************************************************************************)
(* CpanelAPI instances                                                     *)
(***************************************************************************)
\* object.__new__(cls): an instance with no attribute set
NewObject == [config |-> <<>>, base_url |-> <<>>, client |-> <<>>, headers |-> <<>>]

BaseUrl(cfg) ==
  (IF cfg.ssl THEN S_https ELSE S_http) \o <<":", "/", "/">> \o cfg.hostname
    \o <<":">> \o IntToStr(cfg.port)

Headers(cfg) ==
  ("Authorization" :> (S_cpanel \o cfg.username \o <<":">> \o cfg.api_token))
    @@ ("Content-Type" :> S_appjson)

\* the attributes CpanelAPI.__init__ assigns once _build_config has returned
Initialized(cfg, clientId) ==
  [config |-> << cfg >>,
   base_url |-> << BaseUrl(cfg) >>,
   client |-> << clientId >>,
   headers |-> << Headers(cfg) >>]

\* __new__ that allocates on every request
NewIsFresh_always(cached) == TRUE

\* CpanelAPI.__new__: the cached instance, or a new one that becomes the cache
NewIsFresh(cached) == cached = 0

Op(name, outcome) ==
  [op |-> name, args |-> <<>>, kind |-> outcome.kind, exc |-> outcome.exc,
   names |-> outcome.names, val |-> outcome.val]

NoCall == Op("none", Returned(0))

Threads == 1..NumThreads

\* a thread that has not yet requested the bridge
IdleThread ==
  [pc |-> "start", self |-> 0, protocol |-> <<>>, url |-> <<>>, built |-> <<>>,
   sent |-> <<>>]

\* CpanelAPI(): type.__call__ runs __new__ and then __init__ on its result
Construct ==
  /\ clients < MaxInits
  /\ NewIsFresh(singleton) => Len(objs) < MaxObjs
  /\ LET fresh == NewIsFresh(singleton)
         self == IF fresh THEN Len(objs) + 1 ELSE singleton
         objs1 == IF fresh THEN Append(objs, NewObject) ELSE objs
         r == BuildConfig(env)
     IN  /\ singleton' = self
         /\ IF r.kind = "raise"
            THEN /\ objs' = objs1
                 /\ clients' = clients
                 /\ api' = api
                 /\ last' = Op("CpanelAPI", r)
            ELSE /\ objs' = [objs1 EXCEPT ![self] = Initialized(r.val, clients + 1)]
                 /\ clients' = clients + 1
                 /\ api' = self
                 /\ last' = Op("CpanelAPI", Returned(self))
  /\ UNCHANGED <<env, wire, threads>>

\* CpanelAPI._singleton = None
Reset ==
  /\ singleton # 0
  /\ singleton' = 0
  /\ last' = Op("reset", Returned(0))
  /\ UNCHANGED <<env, objs, clients, api, wire, threads>>

\* values the environment variables are set to in the bridge's life cycle
EnvChoices ==
  [k \in EnvNames |->
     CASE k = "USERNAME" -> { DefaultEnv["USERNAME"][1] }
       [] k = "HOSTNAME" -> { DefaultEnv["HOSTNAME"][1], <<"h", "2">> }
       [] k = "CPANEL_API_TOKEN" -> { DefaultEnv["CPANEL_API_TOKEN"][1] }
       [] k = "PORT" -> { <<"2", "0", "8", "7">> }
       [] k = "SSL" -> { <<"f", "a", "l", "s", "e">> }]

\* os.environ[k] = v
SetEnv ==
  \E k \in EnvNames : \E v \in EnvChoices[k] :
    /\ env[k] # << v >>
    /\ env' = [env EXCEPT ![k] = << v >>]
    /\ last' = Op("setenv", Returned(0))
    /\ UNCHANGED <<bridge, wire, threads>>

\* del os.environ[k]
DelEnv ==
  \E k \in EnvNames :
    /\ env[k] # <<>>
    /\ env' = [env EXCEPT ![k] = <<>>]
    /\ last' = Op("delenv", Returned(0))
    /\ UNCHANGED <<bridge, wire, threads>>

Init ==
  /\ env = DefaultEnv
  /\ singleton = 0
  /\ objs = <<>>
  /\ clients = 0
  /\ api = 0
  /\ last = NoCall
  /\ calls = <<>>
  /\ gets = <<>>
  /\ exchange = <<>>
  /\ decoded = FALSE
  /\ threads = [t \in Threads |-> IdleThread]

Next == Construct \/ Reset \/ SetEnv \/ DelEnv

Spec == Init /\ [][Next]_vars

(***************************************************************************)
(* CpanelAPI.split_email and CpanelAPI.make_call                           *)
(***************************************************************************)
\* split_email taking the last piece as the domain (rsplit-like slip)
SplitEmail_last(email) ==
  LET parts == Split(email, "@")
  IN  IF Len(parts) < 2 THEN Raised("IndexError", {})
      ELSE Returned(<< parts[1], parts[Len(parts)] >>)

\* CpanelAPI.split_email: pieces [0] and [1] of email.split("@")
SplitEmail(email) ==
  LET parts == Split(email, "@")
      username == parts[1]
  IN  IF Len(parts) < 2 THEN Raised("IndexError", {})
      ELSE Returned(<< username, parts[2] >>)

EmptyMap == [k \in {} |-> k]

S_NoAttr == <<"'", "C", "p", "a", "n", "e", "l", "A", "P", "I", "'", " ", "o", "b", "j", "e", "c", "t", " ", "h", "a", "s", " ", "n", "o", " ", "a", "t", "t", "r", "i", "b", "u", "t", "e", " ", "'">>

\* str(AttributeError) for a missing instance attribute
AttrMsg(name) == S_NoAttr \o name \o <<"'">>

\* MockResponse.raise_for_status: the statuses that raise HTTPStatusError
RaisesForStatus(status_code) == status_code >= 400

\* a try block that decodes the body before it looks at the status
TryBody_decodeFirst(self, x) ==
  IF x.raises # ""
  THEN [exc |-> x.raises, msg |-> x.msg, status |-> 0, val |-> <<>>,
        sent |-> TRUE, decoded |-> FALSE]
  ELSE IF x.json = <<>>
  THEN [exc |-> "ValueError", msg |-> <<>>, status |-> x.status, val |-> <<>>,
        sent |-> TRUE, decoded |-> TRUE]
  ELSE IF x.status >= 400
  THEN [exc |-> "HTTPStatusError", msg |-> <<>>, status |-> x.status, val |-> <<>>,
        sent |-> TRUE, decoded |-> TRUE]
  ELSE [exc |-> "", msg |-> <<>>, status |-> x.status, val |-> x.json,
        sent |-> TRUE, decoded |-> TRUE]

\* what the try block of make_call does with the outcome x of the exchange:
\* the exception it raises (exc) or the value it returns (val), and whether
\* response.json() was invoked (decoded)
TryBody(self, x) ==
  IF self.client = <<>>
  THEN [exc |-> "Exception", msg |-> AttrMsg(<<"_", "c", "l", "i", "e", "n", "t">>),
        status |-> 0, val |-> <<>>, sent |-> FALSE, decoded |-> FALSE]
  ELSE IF self.headers = <<>>
  THEN [exc |-> "Exception", msg |-> AttrMsg(<<"_", "h", "e", "a", "d", "e", "r", "s">>),
        status |-> 0, val |-> <<>>, sent |-> FALSE, decoded |-> FALSE]
  ELSE IF x.raises # ""
  THEN [exc |-> x.raises, msg |-> x.msg, status |-> 0, val |-> <<>>,
        sent |-> TRUE, decoded |-> FALSE]
  ELSE IF RaisesForStatus(x.status)
  THEN [exc |-> "HTTPStatusError", msg |-> <<>>, status |-> x.status, val |-> <<>>,
        sent |-> TRUE, decoded |-> FALSE]
  ELSE IF x.json = <<>>
  THEN [exc |-> "ValueError", msg |-> <<>>, status |-> x.status, val |-> <<>>,
        sent |-> TRUE, decoded |-> TRUE]
  ELSE [exc |-> "", msg |-> <<>>, status |-> x.status, val |-> x.json,
        sent |-> TRUE, decoded |-> TRUE]

\* except clauses without the httpx.RequestError clause
Handle_noRequestError(t) ==
  IF t.exc = "HTTPStatusError" THEN [error |-> S_HTTP \o IntToStr(t.status)]
  ELSE IF t.exc = "ValueError" THEN [error |-> S_InvalidJSON]
  ELSE [error |-> S_Unknown \o t.msg]

\* the except clauses of make_call, in source order
Handle(t) ==
  IF t.exc = "HTTPStatusError" THEN [error |-> S_HTTP \o IntToStr(t.status)]
  ELSE IF t.exc = "RequestError" THEN [error |-> S_RequestFailed \o t.msg]
  ELSE IF t.exc = "ValueError" THEN [error |-> S_InvalidJSON]
  ELSE [error |-> S_Unknown \o t.msg]

\* a request whose URL lacks the module segment
Request_noModule(self, module, function, params) ==
  [url |-> self.base_url[1] \o S_execute \o function,
   headers |-> self.headers[1],
   params |-> IF params = <<>> THEN EmptyMap ELSE params[1],
   client |-> self.client[1]]

\* the request self._client.get(url=..., headers=..., params=...) sends
Request(self, module, function, params) ==
  [url |-> self.base_url[1] \o S_execute \o module \o <<"/">> \o function,
   headers |-> self.headers[1],
   params |-> IF params = <<>> THEN EmptyMap ELSE params[1],
   client |-> self.client[1]]

\* make_call without the final "except Exception" clause
MakeCall_noCatchAll(self, module, function, params, x) ==
  LET t == TryBody(self, x)
  IN  [out |-> IF t.exc = "" THEN Returned(t.val[1])
               ELSE IF t.exc = "Exception" THEN Raised("Exception", {})
               ELSE Returned(Handle(t)),
       gets |-> IF t.sent THEN << Request(self, module, function, params) >>
                ELSE <<>>,
       decoded |-> t.decoded]

\* CpanelAPI.make_call on instance self; params is <<>> for None
MakeCall(self, module, function, params, x) ==
  IF self.base_url = <<>>
  THEN [out |-> Raised("AttributeError", {}), gets |-> <<>>, decoded |-> FALSE]
  ELSE
    LET t == TryBody(self, x)
    IN  [out |-> Returned(IF t.exc = "" THEN t.val[1] ELSE Handle(t)),
         gets |-> IF t.sent THEN << Request(self, module, function, params) >>
                  ELSE <<>>,
         decoded |-> t.decoded]

(***************************************************************************)
(* Outcomes of one HTTP exchange                                           *)
(***************************************************************************)
Msgs == { <<"N", "e", "t", "w", "o", "r", "k", " ", "i", "s", " ", "u", "n", "r", "e", "a", "c", "h", "a", "b", "l", "e">>, <<>> }

Statuses == {200, 404, 500}

\* decoded JSON bodies; the API's own replies may carry an "error" key
Bodies == { [ok |-> 1], [error |-> <<"n", "o">>] }

GetRaises(e, m) == [raises |-> e, msg |-> m, status |-> 0, json |-> <<>>]

Response(c, j) == [raises |-> "", msg |-> <<>>, status |-> c, json |-> j]

Exchanges ==
  { GetRaises(e, m) : e \in {"RequestError", "Exception"}, m \in Msgs }
    \cup { GetRaises("ValueError", <<>>) }
    \cup { Response(c, j) : c \in Statuses, j \in {<<>>} \cup { << b >> : b \in Bodies } }

(***************************************************************************)
(* CpanelMCP tool operations                                               *)
(***************************************************************************)
ToolEmails ==
  { <<"u", "@", "d", ".", "c", "o", "m">>, <<"u", ".", "d">>,
    <<"a", "@", "b", "@", "c">> }

Passwords == { <<"p", "w">> }

Quotas == {0, 123}

Destinations == { <<"d", "e", "s", "t", "@", "x", ".", "c", "o", "m">> }

Domains == { <<"d", ".", "c", "o", "m">> }

Called(name, args, outcome) ==
  [op |-> name, args |-> args, kind |-> outcome.kind, exc |-> outcome.exc,
   names |-> outcome.names, val |-> outcome.val]

\* an exception raised before make_call is reached leaves the tool uncaught
Propagate(name, args, r) ==
  /\ api # 0
  /\ last' = Called(name, args, r)
  /\ calls' = <<>>
  /\ gets' = <<>>
  /\ exchange' = <<>>
  /\ decoded' = FALSE
  /\ UNCHANGED <<env, bridge, threads>>

\* a delegation whose make_call opens a new httpx.Client for every request
Deliver_newClient(name, args, module, function, params, x) ==
  /\ api # 0
  /\ LET r == MakeCall(objs[api], module, function, params, x)
     IN  /\ last' = Called(name, args, r.out)
         /\ calls' = << [module |-> module, function |-> function, params |-> params] >>
         /\ gets' = r.gets
         /\ exchange' = IF r.gets = <<>> THEN <<>> ELSE << x >>
         /\ decoded' = r.decoded
  /\ objs' = [objs EXCEPT ![api].client = << clients + 1 >>]
  /\ clients' = clients + 1
  /\ UNCHANGED <<env, singleton, api, threads>>

\* return self._api.make_call(module, function, params)
Deliver(name, args, module, function, params, x) ==
  /\ api # 0
  /\ LET r == MakeCall(objs[api], module, function, params, x)
     IN  /\ last' = Called(name, args, r.out)
         /\ calls' = << [module |-> module, function |-> function, params |-> params] >>
         /\ gets' = r.gets
         /\ exchange' = IF r.gets = <<>> THEN <<>> ELSE << x >>
         /\ decoded' = r.decoded
  /\ UNCHANGED <<env, bridge, threads>>

add_email_account ==
  \E email \in ToolEmails, password \in Passwords, quota \in Quotas, x \in Exchanges :
    LET args == [email |-> email, password |-> password, quota |-> quota]
        s == SplitEmail(email)
    IN  IF s.kind = "raise" THEN Propagate("add_email_account", args, s)
        ELSE Deliver("add_email_account", args, S_Email,
                     <<"a", "d", "d", "_", "p", "o", "p">>,
                     << [domain |-> s.val[2], email |-> s.val[1],
                         password |-> password, quota |-> quota] >>, x)

delete_email_account ==
  \E email \in ToolEmails, x \in Exchanges :
    LET args == [email |-> email]
        s == SplitEmail(email)
    IN  IF s.kind = "raise" THEN Propagate("delete_email_account", args, s)
        ELSE Deliver("delete_email_account", args, S_Email,
                     <<"d", "e", "l", "e", "t", "e", "_", "p", "o", "p">>,
                     << [domain |-> s.val[2], email |-> s.val[1]] >>, x)

list_email_accounts ==
  \E domain \in Domains, x \in Exchanges :
    Deliver("list_email_accounts", [domain |-> domain], S_Email,
            <<"l", "i", "s", "t", "_", "p", "o", "p", "s">>,
            << [domain |-> domain] >>, x)

\* get_email_settings splitting the address like the account operations
get_email_settings_split ==
  \E email \in ToolEmails, x \in Exchanges :
    LET args == [email |-> email]
        s == SplitEmail(email)
    IN  IF s.kind = "raise" THEN Propagate("get_email_settings", args, s)
        ELSE Deliver("get_email_settings", args, S_Email,
                     <<"g", "e", "t", "_", "c", "l", "i", "e", "n", "t", "_", "s", "e", "t", "t", "i", "n", "g", "s">>,
                     << [email |-> email] >>, x)

get_email_settings ==
  \E email \in ToolEmails, x \in Exchanges :
    Deliver("get_email_settings", [email |-> email], S_Email,
            <<"g", "e", "t", "_", "c", "l", "i", "e", "n", "t", "_", "s", "e", "t", "t", "i", "n", "g", "s">>,
            << [email |-> email] >>, x)

update_quota ==
  \E email \in ToolEmails, quota \in Quotas, x \in Exchanges :
    LET args == [email |-> email, quota |-> quota]
        s == SplitEmail(email)
    IN  IF s.kind = "raise" THEN Propagate("update_quota", args, s)
        ELSE Deliver("update_quota", args, S_Email,
                     <<"e", "d", "i", "t", "_", "p", "o", "p", "_", "q", "u", "o", "t", "a">>,
                     << [email |-> s.val[1], domain |-> s.val[2], quota |-> quota] >>, x)

change_password ==
  \E email \in ToolEmails, new_password \in Passwords, x \in Exchanges :
    LET args == [email |-> email, new_password |-> new_password]
        s == SplitEmail(email)
    IN  IF s.kind = "raise" THEN Propagate("change_password", args, s)
        ELSE Deliver("change_password", args, S_Email,
                     <<"p", "a", "s", "s", "w", "d", "_", "p", "o", "p">>,
                     << [email |-> s.val[1], domain |-> s.val[2],
                         password |-> new_password] >>, x)

create_email_forwarder ==
  \E email \in ToolEmails, destination \in Destinations, x \in Exchanges :
    LET args == [email |-> email, destination |-> destination]
        s == SplitEmail(email)
    IN  IF s.kind = "raise" THEN Propagate("create_email_forwarder", args, s)
        ELSE Deliver("create_email_forwarder", args, S_Email,
                     <<"a", "d", "d", "_", "f", "o", "r", "w", "a", "r", "d", "e", "r">>,
                     << [email |-> s.val[1], domain |-> s.val[2],
                         fwdopt |-> S_fwd, fwdemail |-> destination] >>, x)

\* delete_email_forwarder splitting the address like the account operations
delete_email_forwarder_split ==
  \E email \in ToolEmails, destination \in Destinations, x \in Exchanges :
    LET args == [email |-> email, destination |-> destination]
        s == SplitEmail(email)
    IN  IF s.kind = "raise" THEN Propagate("delete_email_forwarder", args, s)
        ELSE Deliver("delete_email_forwarder", args, S_Email,
                     <<"d", "e", "l", "e", "t", "e", "_", "f", "o", "r", "w", "a", "r", "d", "e", "r">>,
                     << [address |-> s.val[1], forwarder |-> destination] >>, x)

delete_email_forwarder ==
  \E email \in ToolEmails, destination \in Destinations, x \in Exchanges :
    Deliver("delete_email_forwarder", [email |-> email, destination |-> destination],
            S_Email,
            <<"d", "e", "l", "e", "t", "e", "_", "f", "o", "r", "w", "a", "r", "d", "e", "r">>,
            << [address |-> email, forwarder |-> destination] >>, x)

list_email_forwarders ==
  \E domain \in Domains, x \in Exchanges :
    Deliver("list_email_forwarders", [domain |-> domain], S_Email,
            <<"l", "i", "s", "t", "_", "f", "o", "r", "w", "a", "r", "d", "e", "r", "s">>,
            << [domain |-> domain] >>, x)

\* a direct call of the bridge: api.make_call(module, function[, params])
Targets == { << S_Email, <<"x">> >>, << <<"X">>, <<"a", "d", "d", "_", "p", "o", "p">> >> }

ParamsGiven ==
  { <<>>, << EmptyMap >>,
    << [email |-> <<"u", "s", "e", "r">>, domain |-> <<"e", "x", ".", "c", "o", "m">>] >> }

make_call ==
  \E target \in Targets, params \in ParamsGiven, x \in Exchanges :
    Deliver("make_call",
            [module |-> target[1], function |-> target[2], params |-> params],
            target[1], target[2], params, x)

\* environments from which the bridge of the tool surface is constructed
CallEnvs ==
  { DefaultEnv,
    [k \in EnvNames |->
       CASE k = "USERNAME" -> << <<"v">> >>
         [] k = "HOSTNAME" -> << <<"h", "2">> >>
         [] k = "CPANEL_API_TOKEN" -> << <<"w">> >>
         [] k = "PORT" -> << <<"2", "0", "8", "7">> >>
         [] k = "SSL" -> << <<"f", "a", "l", "s", "e">> >>] }

\* the state after CpanelMCP() has constructed the bridge
InitCall ==
  /\ env \in CallEnvs
  /\ singleton = 1
  /\ objs = << Initialized(BuildConfig(env).val, 1) >>
  /\ clients = 1
  /\ api = 1
  /\ last = Op("CpanelAPI", Returned(1))
  /\ calls = <<>>
  /\ gets = <<>>
  /\ exchange = <<>>
  /\ decoded = FALSE
  /\ threads = [t \in Threads |-> IdleThread]

NextCall ==
  \/ add_email_account
  \/ delete_email_account
  \/ list_email_accounts
  \/ get_email_settings
  \/ update_quota
  \/ change_password
  \/ create_email_forwarder
  \/ delete_email_forwarder
  \/ list_email_forwarders
  \/ make_call

SpecCall == InitCall /\ [][NextCall]_vars

(***************************************************************************)
(* split_email as a pure function over bounded strings                     *)
(***************************************************************************)
EmailAlphabet == {"a", "b", "@"}

Emails == UNION { [1..n -> EmailAlphabet] : n \in 0..MaxEmailLen }

split_email ==
  \E email \in Emails :
    /\ last' = Called("split_email", [email |-> email], SplitEmail(email))
    /\ UNCHANGED <<env, bridge, wire, threads>>

SpecSplit == Init /\ [][split_email]_vars

(***************************************************************************)
(* Construction of the bridge over a range of environments                 *)
(***************************************************************************)
PortInputs ==
  { <<>>,
    << <<"2", "0", "8", "7">> >>,
    << <<"2", "0", "8", "2">> >>,
    << <<>> >>,
    << <<"x">> >>,
    << <<"8", "0", "x">> >>,
    << <<"-", "1">> >>,
    << <<" ", "4", "4", "3", " ">> >>,
    << <<"0", "0", "8", "0">> >>,
    << <<"1", "_", "0">> >>,
    << <<"+", "7">> >>,
    << <<"_", "8">> >>,
    << <<"8", " ", "0">> >> }

SslInputs ==
  { <<>>,
    << <<"t", "r", "u", "e">> >>,
    << <<"T", "R", "U", "E">> >>,
    << <<"T", "r", "u", "e">> >>,
    << <<"1">> >>,
    << <<"y", "e", "s">> >>,
    << <<"o", "n">> >>,
    << <<"O", "n">> >>,
    << <<"f", "a", "l", "s", "e">> >>,
    << <<"n", "o">> >>,
    << <<>> >>,
    << <<"0">> >>,
    << <<"o", "f", "f">> >>,
    << <<" ", "t", "r", "u", "e">> >>,
    << <<"t", "r", "u", "e", "x">> >> }

\* a required variable is absent, empty, or has the test suite's value
RequiredInputs(k) == { <<>>, << <<>> >>, DefaultEnv[k] }

ConfigEnvs ==
  { [k \in EnvNames |->
       CASE k = "USERNAME" -> u
         [] k = "HOSTNAME" -> h
         [] k = "CPANEL_API_TOKEN" -> t
         [] k = "PORT" -> p
         [] k = "SSL" -> s] :
    u \in RequiredInputs("USERNAME"), h \in RequiredInputs("HOSTNAME"),
    t \in RequiredInputs("CPANEL_API_TOKEN"), p \in PortInputs, s \in SslInputs }

InitConfig ==
  /\ env \in ConfigEnvs
  /\ singleton = 0
  /\ objs = <<>>
  /\ clients = 0
  /\ api = 0
  /\ last = NoCall
  /\ calls = <<>>
  /\ gets = <<>>
  /\ exchange = <<>>
  /\ decoded = FALSE
  /\ threads = [t \in Threads |-> IdleThread]

SpecConfig == InitConfig /\ [][Construct]_vars

(***************************************************************************)
(* Threads that request the bridge and then call make_call.  The code      *)
(* takes no lock, so every read and write of the class attribute and of    *)
(* the instance attributes is a step of its own, in source order.          *)
(***************************************************************************)
At(t, pc) == threads[t].pc = pc

Goto(t, pc) == [threads EXCEPT ![t].pc = pc]

\* __new__: the test "if not cls._singleton"
new_check(t) ==
  /\ At(t, "start")
  /\ threads' = Goto(t, IF NewIsFresh(singleton) THEN "new_assign" ELSE "new_return")
  /\ UNCHANGED <<env, bridge, last, wire>>

\* __new__: cls._singleton = super().__new__(cls)
new_assign(t) ==
  /\ At(t, "new_assign")
  /\ objs' = Append(objs, NewObject)
  /\ singleton' = Len(objs) + 1
  /\ threads' = Goto(t, "new_return")
  /\ UNCHANGED <<env, clients, api, last, wire>>

\* __new__: "return cls._singleton" reads the class attribute again
new_return(t) ==
  /\ At(t, "new_return")
  /\ threads' = [threads EXCEPT ![t].self = singleton, ![t].pc = "init_config"]
  /\ UNCHANGED <<env, bridge, last, wire>>

\* __init__: self._config = self._build_config()
init_config(t) ==
  /\ At(t, "init_config")
  /\ LET r == BuildConfig(env)
         self == threads[t].self
     IN  IF r.kind = "raise"
         THEN /\ threads' = Goto(t, "raised")
              /\ objs' = objs
         ELSE /\ threads' = [threads EXCEPT ![t].built = << r.val >>,
                                            ![t].pc = "init_protocol"]
              /\ objs' = [objs EXCEPT ![self].config = << r.val >>]
  /\ UNCHANGED <<env, singleton, clients, api, last, wire>>

\* __init__: protocol = "https" if self._config.ssl else "http"
init_protocol(t) ==
  /\ At(t, "init_protocol")
  /\ LET cfg == objs[threads[t].self].config[1]
     IN  threads' = [threads EXCEPT ![t].protocol = IF cfg.ssl THEN S_https ELSE S_http,
                                    ![t].pc = "init_base_url"]
  /\ UNCHANGED <<env, bridge, last, wire>>

\* __init__: self._base_url = f"{protocol}://{hostname}:{port}"
init_base_url(t) ==
  /\ At(t, "init_base_url")
  /\ LET self == threads[t].self
         cfg == objs[self].config[1]
     IN  objs' = [objs EXCEPT ![self].base_url =
                    << threads[t].protocol \o <<":", "/", "/">> \o cfg.hostname
                         \o <<":">> \o IntToStr(cfg.port) >>]
  /\ threads' = Goto(t, "init_client")
  /\ UNCHANGED <<env, singleton, clients, api, last, wire>>

\* __init__: self._client = httpx.Client(timeout=30.0)
init_client(t) ==
  /\ At(t, "init_client")
  /\ objs' = [objs EXCEPT ![threads[t].self].client = << clients + 1 >>]
  /\ clients' = clients + 1
  /\ threads' = Goto(t, "init_headers")
  /\ UNCHANGED <<env, singleton, api, last, wire>>

\* __init__: self._headers = {...}
init_headers(t) ==
  /\ At(t, "init_headers")
  /\ LET self == threads[t].self
     IN  objs' = [objs EXCEPT ![self].headers = << Headers(objs[self].config[1]) >>]
  /\ threads' = Goto(t, "call_url")
  /\ UNCHANGED <<env, singleton, clients, api, last, wire>>

\* make_call: url = f"{self._base_url}/execute/{module}/{function}"
call_url(t) ==
  /\ At(t, "call_url")
  /\ \E target \in Targets :
       LET self == objs[threads[t].self]
       IN  threads' =
             IF self.base_url = <<>>
             THEN Goto(t, "raised")
             ELSE [threads EXCEPT
                     ![t].url = << self.base_url[1] \o S_execute \o target[1]
                                     \o <<"/">> \o target[2] >>,
                     ![t].pc = "call_get"]
  /\ UNCHANGED <<env, bridge, last, wire>>

\* make_call: self._client.get(url=url, headers=self._headers, params=params)
call_get(t) ==
  /\ At(t, "call_get")
  /\ LET self == objs[threads[t].self]
     IN  threads' =
           IF self.client = <<>> \/ self.headers = <<>>
           THEN Goto(t, "done")
           ELSE [threads EXCEPT
                   ![t].sent = << [url |-> threads[t].url[1],
                                   headers |-> self.headers[1],
                                   params |-> EmptyMap,
                                   client |-> self.client[1]] >>,
                   ![t].pc = "done"]
  /\ UNCHANGED <<env, bridge, last, wire>>

NextThreads ==
  \E t \in Threads :
    \/ new_check(t)
    \/ new_assign(t)
    \/ new_return(t)
    \/ init_config(t)
    \/ init_protocol(t)
    \/ init_base_url(t)
    \/ init_client(t)
    \/ init_headers(t)
    \/ call_url(t)
    \/ call_get(t)

SpecThreads == Init /\ [][NextThreads]_vars

(***************************************************************************)
(* C7: split_email                                                         *)
(***************************************************************************)
HasAt(s) == \E i \in 1..Len(s) : s[i] = "@"

CountAt(s) == Cardinality({ i \in 1..Len(s) : s[i] = "@" })

FirstAt(s) == CHOOSE i \in 1..Len(s) : s[i] = "@" /\ \A j \in 1..(i - 1) : s[j] # "@"

BeforeFirstAt(s) == SubSeq(s, 1, FirstAt(s) - 1)

AfterFirstAt(s) == SubSeq(s, FirstAt(s) + 1, Len(s))

FieldOf(k) ==
  CASE k = "USERNAME" -> "username"
    [] k = "HOSTNAME" -> "hostname"
    [] k = "CPANEL_API_TOKEN" -> "api_token"

MissingOrEmpty(e) == { k \in RequiredNames : e[k] = <<>> \/ e[k] = << <<>> >> }

\* C8 as stated: building the config fails whenever a required value is
\* missing or empty, and the one error raised names every such field.
C8_AsStated ==
  (last.op = "CpanelAPI" /\ MissingOrEmpty(env) # {})
    => /\ last.kind = "raise"
       /\ \A k \in MissingOrEmpty(env) : k \in last.names \/ FieldOf(k) \in last.names

ExpectedPortText(p) ==
  CASE p = << <<"2", "0", "8", "7">> >> -> <<"2", "0", "8", "7">>
    [] p = << <<"2", "0", "8", "2">> >> -> <<"2", "0", "8", "2">>
    [] p = << <<"-", "1">> >> -> <<"-", "1">>
    [] p = << <<" ", "4", "4", "3", " ">> >> -> <<"4", "4", "3">>
    [] p = << <<"0", "0", "8", "0">> >> -> <<"8", "0">>
    [] p = << <<"1", "_", "0">> >> -> <<"1", "0">>
    [] p = << <<"+", "7">> >> -> <<"7">>
    [] OTHER -> <<"2", "0", "8", "3">>

ExpectedScheme(s) ==
  IF s \in { <<>>, << <<"t", "r", "u", "e">> >>, << <<"T", "R", "U", "E">> >>,
             << <<"T", "r", "u", "e">> >>, << <<"1">> >>, << <<"y", "e", "s">> >>,
             << <<"o", "n">> >>, << <<"O", "n">> >> }
  THEN <<"h", "t", "t", "p", "s">>
  ELSE <<"h", "t", "t", "p">>

\* C9: with the three required values present, construction succeeds and the
\* base URL is scheme://HOSTNAME:port, where port is the integer value of PORT
\* when it parses and 2083 otherwise, and scheme is https exactly when SSL is
\* absent or lower-cases to one of true, 1, yes, on.
C9_Theorem ==
  (last.op = "CpanelAPI" /\ \A k \in RequiredNames : env[k] # <<>>)
    => /\ last.kind = "return"
       /\ objs[last.val].base_url =
            << ExpectedScheme(env["SSL"]) \o <<":", "/", "/">> \o env["HOSTNAME"][1]
                 \o <<":">> \o ExpectedPortText(env["PORT"]) >>

C9_Witness ==
  /\ last.op = "CpanelAPI"
  /\ last.kind = "return"
  /\ env["PORT"] = << <<"8", "0", "x">> >>
  /\ env["SSL"] = << <<>> >>
  /\ objs[last.val].base_url = << <<"h", "t", "t", "p", ":", "/", "/", "c", "p", "a", "n", "e", "l", ".", "e", "x", "a", "m", "p", "l", "e", ".", "c", "o", "m", ":", "2", "0", "8", "3">> >>

(***************************************************************************)
(* C2, C10: the cached singleton                                           *)
(***************************************************************************)
\* C2 as stated: while the cached instance stays the same (no reset), the
\* _config, _base_url and _headers seen through it never change, whatever
\* environment changes and construction requests follow the first one.
C2_AsStated ==
  [][ (singleton # 0 /\ singleton' = singleton /\ objs[singleton].config # <<>>)
        => /\ objs'[singleton].config = objs[singleton].config
           /\ objs'[singleton].base_url = objs[singleton].base_url
           /\ objs'[singleton].headers = objs[singleton].headers ]_vars

\* C10: a construction request that finds a cached instance returns that very
\* instance and leaves it cached, so two requests with no reset between them
\* return the identical object; only a reset empties the cache, and the request
\* after a reset returns an instance distinct from every earlier one, caches
\* it, and gives it the config of the environment at that time.
C10_Theorem ==
  [][ /\ (singleton # 0 /\ last'.op # "reset") => singleton' = singleton
      /\ (last'.op = "CpanelAPI" /\ last'.kind = "return")
           => /\ last'.val = singleton'
              /\ api' = last'.val
              /\ IF singleton # 0
                 THEN last'.val = singleton
                 ELSE /\ last'.val \notin 1..Len(objs)
                      /\ objs'[last'.val].config = << BuildConfig(env).val >> ]_vars

\* the first instance was returned by two constructions, then the cache was
\* reset and a third construction returned a second instance with the config
\* of a changed environment
C10_Witness ==
  /\ last.op = "CpanelAPI"
  /\ last.kind = "return"
  /\ last.val = 2
  /\ objs[1].client = << 2 >>
  /\ objs[2].client = << 3 >>
  /\ objs[2].config # objs[1].config

(***************************************************************************)
(* C3 - C6: make_call                                                      *)
(***************************************************************************)
CallOps ==
  { "add_email_account", "delete_email_account", "list_email_accounts",
    "get_email_settings", "update_quota", "change_password",
    "create_email_forwarder", "delete_email_forwarder", "list_email_forwarders",
    "make_call" }

MadeCall == last.op \in CallOps /\ calls # <<>>

IsText(v) == DOMAIN v = 1..Len(v) /\ \A i \in 1..Len(v) : v[i] \in STRING

\* the exchange failed: the GET raised, the status is an error status, or the
\* body does not decode
FailureOutcome(x) == x.raises # "" \/ x.status \notin 200..399 \/ x.json = <<>>

\* C3: make_call always returns a mapping and never raises; on every failure
\* outcome the mapping has the single key "error" with a string value, and a
\* failure of no recognised class yields "Unknown error occurred: {details}".
C3_Theorem ==
  MadeCall
    => /\ last.kind = "return"
       /\ exchange # <<>>
       /\ FailureOutcome(exchange[1])
            => /\ DOMAIN last.val = {"error"}
               /\ IsText(last.val.error)
       /\ exchange[1].raises = "Exception"
            => last.val = [error |-> <<"U", "n", "k", "n", "o", "w", "n", " ", "e", "r", "r", "o", "r", " ", "o", "c", "c", "u", "r", "r", "e", "d", ":", " ">> \o exchange[1].msg]

C3_Witness ==
  /\ MadeCall
  /\ exchange[1].raises = "Exception"
  /\ exchange[1].msg # <<>>
  /\ last.kind = "return"
  /\ DOMAIN last.val = {"error"}

ExpectedStatusText(c) ==
  CASE c = 404 -> <<"H", "T", "T", "P", " ", "4", "0", "4">>
    [] c = 500 -> <<"H", "T", "T", "P", " ", "5", "0", "0">>

\* C4: a GET that completes with a non-success status c makes make_call
\* return exactly {"error": "HTTP c"}, and the body is not decoded on that
\* path, whether or not it is valid JSON.
C4_Theorem ==
  (MadeCall /\ exchange # <<>> /\ exchange[1].raises = ""
     /\ exchange[1].status \notin 200..399)
    => /\ last.kind = "return"
       /\ last.val = [error |-> ExpectedStatusText(exchange[1].status)]
       /\ ~decoded

C4_Witness ==
  /\ MadeCall
  /\ exchange # <<>>
  /\ exchange[1].raises = ""
  /\ exchange[1].status = 500
  /\ exchange[1].json = <<>>
  /\ last.val = [error |-> <<"H", "T", "T", "P", " ", "5", "0", "0">>]

\* C5: a GET that fails at transport level with message m makes make_call
\* return exactly {"error": "Request failed: m"} after exactly one GET attempt.
C5_Theorem ==
  (MadeCall /\ exchange # <<>> /\ exchange[1].raises = "RequestError")
    => /\ last.kind = "return"
       /\ last.val = [error |-> <<"R", "e", "q", "u", "e", "s", "t", " ", "f", "a", "i", "l", "e", "d", ":", " ">> \o exchange[1].msg]
       /\ Len(gets) = 1

C5_Witness ==
  /\ MadeCall
  /\ exchange # <<>>
  /\ exchange[1].raises = "RequestError"
  /\ Len(gets) = 1
  /\ last.val = [error |-> <<"R", "e", "q", "u", "e", "s", "t", " ", "f", "a", "i", "l", "e", "d", ":", " ", "N", "e", "t", "w", "o", "r", "k", " ", "i", "s", " ", "u", "n", "r", "e", "a", "c", "h", "a", "b", "l", "e">>]

\* C6: make_call sends its GET to {base_url}/execute/{module}/{function} with
\* the Authorization "cpanel {username}:{api_token}" and Content-Type
\* "application/json" headers and the params as given (none becomes the empty
\* mapping); a success status with a decodable body returns the decoded body.
C6_Theorem ==
  MadeCall
    => /\ Len(gets) = 1
       /\ gets[1].url = objs[api].base_url[1] \o <<"/", "e", "x", "e", "c", "u", "t", "e", "/">>
                          \o calls[1].module \o <<"/">> \o calls[1].function
       /\ DOMAIN gets[1].headers = {"Authorization", "Content-Type"}
       /\ gets[1].headers["Authorization"] =
            <<"c", "p", "a", "n", "e", "l", " ">> \o env["USERNAME"][1] \o <<":">>
              \o env["CPANEL_API_TOKEN"][1]
       /\ gets[1].headers["Content-Type"] = <<"a", "p", "p", "l", "i", "c", "a", "t", "i", "o", "n", "/", "j", "s", "o", "n">>
       /\ gets[1].params = IF calls[1].params = <<>> THEN [k \in {} |-> k]
                           ELSE calls[1].params[1]
       /\ (exchange[1].raises = "" /\ exchange[1].status \in 200..399
             /\ exchange[1].json # <<>>)
            => last.val = exchange[1].json[1]
       /\ (env = DefaultEnv /\ last.op = "make_call" /\ last.args.function = <<"x">>)
            => gets[1].url = <<"h", "t", "t", "p", "s", ":", "/", "/", "c", "p", "a", "n", "e", "l", ".", "e", "x", "a", "m", "p", "l", "e", ".", "c", "o", "m", ":", "2", "0", "8", "3", "/", "e", "x", "e", "c", "u", "t", "e", "/", "E", "m", "a", "i", "l", "/", "x">>

C6_Witness ==
  /\ last.op = "make_call"
  /\ last.args.params = <<>>
  /\ Len(gets) = 1
  /\ gets[1].params = [k \in {} |-> k]
  /\ exchange[1].status = 200
  /\ last.val = [ok |-> 1]

(***************************************************************************)
(* C1: the nine tool operations                                            *)
(***************************************************************************)
ToolOps == CallOps \ {"make_call"}

SplittingOps ==
  { "add_email_account", "delete_email_account", "update_quota", "change_password",
    "create_email_forwarder" }

EmailOps == SplittingOps \cup { "get_email_settings", "delete_email_forwarder" }

ExpectedFunction(op) ==
  CASE op = "add_email_account" -> <<"a", "d", "d", "_", "p", "o", "p">>
    [] op = "delete_email_account" -> <<"d", "e", "l", "e", "t", "e", "_", "p", "o", "p">>
    [] op = "list_email_accounts" -> <<"l", "i", "s", "t", "_", "p", "o", "p", "s">>
    [] op = "get_email_settings" -> <<"g", "e", "t", "_", "c", "l", "i", "e", "n", "t", "_", "s", "e", "t", "t", "i", "n", "g", "s">>
    [] op = "update_quota" -> <<"e", "d", "i", "t", "_", "p", "o", "p", "_", "q", "u", "o", "t", "a">>
    [] op = "change_password" -> <<"p", "a", "s", "s", "w", "d", "_", "p", "o", "p">>
    [] op = "create_email_forwarder" -> <<"a", "d", "d", "_", "f", "o", "r", "w", "a", "r", "d", "e", "r">>
    [] op = "delete_email_forwarder" -> <<"d", "e", "l", "e", "t", "e", "_", "f", "o", "r", "w", "a", "r", "d", "e", "r">>
    [] op = "list_email_forwarders" -> <<"l", "i", "s", "t", "_", "f", "o", "r", "w", "a", "r", "d", "e", "r", "s">>

ExpectedParams(op, a) ==
  CASE op = "add_email_account" ->
         [domain |-> AfterFirstAt(a.email), email |-> BeforeFirstAt(a.email),
          password |-> a.password, quota |-> a.quota]
    [] op = "delete_email_account" ->
         [domain |-> AfterFirstAt(a.email), email |-> BeforeFirstAt(a.email)]
    [] op = "list_email_accounts" -> [domain |-> a.domain]
    [] op = "get_email_settings" -> [email |-> a.email]
    [] op = "update_quota" ->
         [email |-> BeforeFirstAt(a.email), domain |-> AfterFirstAt(a.email),
          quota |-> a.quota]
    [] op = "change_password" ->
         [email |-> BeforeFirstAt(a.email), domain |-> AfterFirstAt(a.email),
          password |-> a.new_password]
    [] op = "create_email_forwarder" ->
         [email |-> BeforeFirstAt(a.email), domain |-> AfterFirstAt(a.email),
          fwdopt |-> <<"f", "w", "d">>, fwdemail |-> a.destination]
    [] op = "delete_email_forwarder" ->
         [address |-> a.email, forwarder |-> a.destination]
    [] op = "list_email_forwarders" -> [domain |-> a.domain]

\* C1: for an email with exactly one '@', each of the nine tool operations
\* makes exactly one make_call, hence exactly one GET, to Email/{function} of
\* the table with the params of the table, and returns what make_call returns.
C1_Theorem ==
  (last.op \in ToolOps /\ (last.op \in EmailOps => CountAt(last.args.email) = 1))
    => /\ Len(calls) = 1
       /\ Len(gets) = 1
       /\ calls[1].module = <<"E", "m", "a", "i", "l">>
       /\ calls[1].function = ExpectedFunction(last.op)
       /\ calls[1].params = << ExpectedParams(last.op, last.args) >>
       /\ gets[1].params = ExpectedParams(last.op, last.args)
       /\ gets[1].url = objs[api].base_url[1]
                          \o <<"/", "e", "x", "e", "c", "u", "t", "e", "/", "E", "m", "a", "i", "l", "/">>
                          \o ExpectedFunction(last.op)
       /\ last.kind = "return"
       /\ last.val = MakeCall(objs[api], calls[1].module, calls[1].function,
                              calls[1].params, exchange[1]).out.val

C1_Witness ==
  /\ last.op = "create_email_forwarder"
  /\ last.args.email = <<"u", "@", "d", ".", "c", "o", "m">>
  /\ Len(gets) = 1
  /\ gets[1].params = [email |-> <<"u">>, domain |-> <<"d", ".", "c", "o", "m">>,
                       fwdopt |-> <<"f", "w", "d">>,
                       fwdemail |-> <<"d", "e", "s", "t", "@", "x", ".", "c", "o", "m">>]
  /\ last.val = [ok |-> 1]

(***************************************************************************)
(* C12 - C14: failures and frame of the tool operations                    *)
(***************************************************************************)
\* C12: a tool invocation ends in an exception propagated to its caller
\* exactly when it is one of the five splitting operations and the email has
\* no '@'; no make_call and no GET happen then, while get_email_settings and
\* delete_email_forwarder send the '@'-less string unchanged in one GET.
C12_Theorem ==
  last.op \in ToolOps
    => /\ last.kind = "raise"
            <=> (last.op \in SplittingOps /\ ~HasAt(last.args.email))
       /\ last.kind = "raise" => (calls = <<>> /\ gets = <<>> /\ exchange = <<>>)
       /\ (last.op = "get_email_settings" /\ ~HasAt(last.args.email))
            => (Len(gets) = 1 /\ gets[1].params = [email |-> last.args.email])
       /\ (last.op = "delete_email_forwarder" /\ ~HasAt(last.args.email))
            => /\ Len(gets) = 1
               /\ gets[1].params = [address |-> last.args.email,
                                    forwarder |-> last.args.destination]

C12_Witness ==
  /\ last.op = "update_quota"
  /\ last.args.email = <<"u", ".", "d">>
  /\ last.kind = "raise"
  /\ last.exc = "IndexError"
  /\ gets = <<>>

\* C13 as stated: make_call returns the invalid-JSON error exactly when the
\* GET completed with a success status and the body did not decode; no
\* failure raised while sending the request is reported as invalid JSON.
C13_AsStated ==
  MadeCall
    => (last.val = [error |-> <<"I", "n", "v", "a", "l", "i", "d", " ", "J", "S", "O", "N", " ", "r", "e", "s", "p", "o", "n", "s", "e", " ", "f", "r", "o", "m", " ", "c", "P", "a", "n", "e", "l", " ", "A", "P", "I", ".">>]
          <=> /\ exchange # <<>>
              /\ exchange[1].raises = ""
              /\ exchange[1].status \in 200..399
              /\ exchange[1].json = <<>>)

\* C14: a make_call or tool operation, whatever its outcome, leaves the
\* cached singleton, every instance (config, base URL, headers, client), the
\* number of clients and the tool surface's bridge reference as they were,
\* and the params mapping a caller passed is the one sent, unaltered.
C14_Theorem ==
  [][ last'.op \in CallOps
        => /\ singleton' = singleton
           /\ objs' = objs
           /\ clients' = clients
           /\ api' = api
           /\ (last'.op = "make_call" /\ last'.args.params # <<>>)
                => /\ calls'[1].params = last'.args.params
                   /\ gets' # <<>> => gets'[1].params = last'.args.params[1] ]_vars

\* a transport failure and an uncaught split failure, each with the bridge
\* still as constructed
C14_Witness ==
  /\ \/ (last.op \in ToolOps /\ last.kind = "raise")
     \/ (last.op = "make_call" /\ exchange # <<>> /\ exchange[1].raises = "RequestError"
           /\ last.args.params # <<>>)
  /\ singleton = 1
  /\ api = 1
  /\ clients = 1
  /\ objs = << Initialized(BuildConfig(env).val, 1) >>

(***************************************************************************)
(* C15: a failed construction                                              *)
(***************************************************************************)
FullySet(o) == o.config # <<>> /\ o.base_url # <<>> /\ o.headers # <<>> /\ o.client # <<>>

\* C15 as stated: a construction that fails leaves the cache empty, so a
\* cached singleton always has its config, base URL, headers and client set.
C15_AsStated == singleton # 0 => FullySet(objs[singleton])


(***************************************************************************)
(* C11: concurrent requests for the bridge                                 *)
(***************************************************************************)
\* the configurations _build_config has returned to some thread
BuiltConfigs == { threads[t].built[1] : t \in { u \in Threads : threads[u].built # <<>> } }

\* the request a thread sent carries a base URL and headers of one configuration
Coherent(req) ==
  \E cfg \in BuiltConfigs :
    /\ SubSeq(req.url, 1, Len(BaseUrl(cfg))) = BaseUrl(cfg)
    /\ req.headers = Headers(cfg)

\* C11: under any interleaving of threads that request the bridge and call
\* make_call, the bridge instance is created once, it is initialized once
\* (one HTTP client is ever constructed), and no thread's make_call finds an
\* attribute unset or sends a base URL and headers of different configurations
C11_AsStated ==
  /\ Len(objs) <= 1
  /\ clients <= 1
  /\ \A t \in Threads :
       /\ threads[t].pc # "raised"
       /\ threads[t].pc = "done" => threads[t].sent # <<>>
       /\ threads[t].sent # <<>> => Coherent(threads[t].sent[1])

\* C11: the instance is created at most once
C11_CreatedOnce == Len(objs) <= 1

\* C11: the shared state is initialized at most once
C11_InitializedOnce == clients <= 1

\* C11: no make_call finds an attribute unset or mixes two configurations
C11_NoTornRead ==
  \A t \in Threads :
    /\ threads[t].pc # "raised"
    /\ threads[t].pc = "done" => threads[t].sent # <<>>
    /\ threads[t].sent # <<>> => Coherent(threads[t].sent[1])

====
